---- MODULE Spec2Model ----
(***************************************************************************)
(* Model of the risk-assessment data types of pghie87/pray:                *)
(*   models/model_output.rs    RiskTier, ModelOutput                       *)
(*   models/factor_analysis.rs FactorAnalysis                              *)
(*   models/risk_assessment.rs Factor, RiskAssessment                      *)
(*   models/risk_model.rs      RiskModel validation                        *)
(*   models/applicant_data.rs  ApplicantData::to_input_format              *)
(*                                                                         *)
(* Numbers.  An f64 quantity is modelled by an integer count of            *)
(* thousandths (199.999 is 199999, 1000.0 is 1000000).  A quotient a/b is  *)
(* never rounded: it is kept as the fraction a/b, or compared with a       *)
(* threshold p/q by cross multiplication.  IEEE division is correctly      *)
(* rounded and monotone, and the literals 0.2, 0.4, 0.6, 0.8 are the       *)
(* doubles nearest to 1/5 .. 4/5, so a quotient that is exactly a          *)
(* threshold compares equal to the literal and a quotient at least one     *)
(* part in 10^6 away from it compares the way the exact quotient does;     *)
(* every quotient compared below is one or the other.  NaN is not          *)
(* modelled as an input: Factor.impact is documented to lie in -1.0 ..     *)
(* 1.0.  Dates are whole days.                                             *)
(***************************************************************************)
EXTENDS Integers, Sequences, FiniteSets, TLC

VARIABLES
    tcall,        \* the last RiskTier::from_score call: arguments and result
    output,       \* a ModelOutput
    ctor,         \* what the ModelOutput was constructed from, and for which model
    last_call,    \* the last method called on the ModelOutput
    passed,       \* the messages passed to add_warning so far, in call order
    analysis,     \* a FactorAnalysis
    assessment,   \* a RiskAssessment
    given,        \* the arguments RiskAssessment::new was called with
    clock,        \* Utc::now()
    fcall,        \* the last query on the factors: arguments and result
    acall,        \* the last is_expired call: time and result
    model,        \* a RiskModel
    vcall,        \* the last validate_* call: name and result
    applicant,    \* an ApplicantData
    xcall         \* the last to_input_format call: time and result

tierVars == <<tcall>>

outputVars == <<output, ctor, last_call, passed>>

factorVars == <<analysis, fcall>>

assessmentVars == <<assessment, given, clock, acall>>

modelVars == <<model, vcall>>

applicantVars == <<applicant, xcall>>

vars == <<tcall, output, ctor, last_call, passed, analysis, assessment, given, clock,
          fcall, acall, model, vcall, applicant, xcall>>

\* Longest warnings list explored.
MaxWarnings == 3

\* Scores explored are the multiples of 50.0 from -100.0 up to MaxScoreStep * 50.0,
\* and the values next to the tier thresholds of the range (0, 1000).
MaxScoreStep == 24

\* Longest factor list explored.
MaxFactors == 3

\* Longest validity window explored, in days.
MaxExpiresDays == 3

\* Latest time explored, in days.
MaxClock == 6

\* Longest feature and output lists explored.
MaxFeatures == 3

MaxOutputs == 2

Min(a, b) == IF a < b THEN a ELSE b

\* f64::abs
Abs(x) == IF x < 0 THEN 0 - x ELSE x

Range(s) == {s[i] : i \in 1..Len(s)}

SeqsUpTo(S, n) == UNION {[1..k -> S] : k \in 0..n}

(***************************************************************************)
(* RiskTier                                                                *)
(***************************************************************************)
RiskTier == {"VeryLow", "Low", "Moderate", "High", "VeryHigh"}

\* score / max_score < p / 10, as f64 evaluates it.  Dividing by 0.0 gives
\* -inf for a negative score (below every threshold) and +inf or NaN
\* otherwise (below none).
NormalizedBelow(score, max_score, p) ==
    IF max_score > 0 THEN score * 10 < p * max_score
    ELSE IF max_score < 0 THEN score * 10 > p * max_score
    ELSE score < 0

\* from_score with every guard written n <= t: a threshold value falls into the
\* lower tier.
from_score_closed(score, max_score) ==
    IF NormalizedBelow(score, max_score, 2) \/ score * 10 = 2 * max_score THEN "VeryLow"
    ELSE IF NormalizedBelow(score, max_score, 4) \/ score * 10 = 4 * max_score THEN "Low"
    ELSE IF NormalizedBelow(score, max_score, 6) \/ score * 10 = 6 * max_score THEN "Moderate"
    ELSE IF NormalizedBelow(score, max_score, 8) \/ score * 10 = 8 * max_score THEN "High"
    ELSE "VeryHigh"

\* from_score dividing by the literal 1000.0 instead of max_score.
from_score_fixed(score, max_score) ==
    IF score * 10 < 2 * 1000000 THEN "VeryLow"
    ELSE IF score * 10 < 4 * 1000000 THEN "Low"
    ELSE IF score * 10 < 6 * 1000000 THEN "Moderate"
    ELSE IF score * 10 < 8 * 1000000 THEN "High"
    ELSE "VeryHigh"

from_score(score, max_score) ==
    IF NormalizedBelow(score, max_score, 2) THEN "VeryLow"
    ELSE IF NormalizedBelow(score, max_score, 4) THEN "Low"
    ELSE IF NormalizedBelow(score, max_score, 6) THEN "Moderate"
    ELSE IF NormalizedBelow(score, max_score, 8) THEN "High"
    ELSE "VeryHigh"

as_str(tier) ==
    CASE tier = "VeryLow"  -> "Very Low"
      [] tier = "Low"      -> "Low"
      [] tier = "Moderate" -> "Moderate"
      [] tier = "High"     -> "High"
      [] tier = "VeryHigh" -> "Very High"

\* The tier of a score within a score range as the specification's tier
\* classifier describes it: normalise with both bounds, clamp into [0,1], then
\* apply the thresholds.  Used only to state properties.
ClampedBelow(score, min, max, p) ==
    IF score <= min THEN TRUE
    ELSE IF score >= max THEN FALSE
    ELSE (score - min) * 10 < p * (max - min)

classify_tier(score, min, max) ==
    IF ClampedBelow(score, min, max, 2) THEN "VeryLow"
    ELSE IF ClampedBelow(score, min, max, 4) THEN "Low"
    ELSE IF ClampedBelow(score, min, max, 6) THEN "Moderate"
    ELSE IF ClampedBelow(score, min, max, 8) THEN "High"
    ELSE "VeryHigh"

TierScores ==
    {i * 50000 : i \in (0 - 2)..MaxScoreStep}
        \cup {199999, 200000, 399999, 400000, 599999, 600000, 799999, 800000, 999999}

\* Score ranges (min, max) with min < max a model may declare.
ScoreRanges ==
    {<<0, 1000000>>, <<0, 500000>>, <<300000, 850000>>,
     <<0 - 500000, 500000>>, <<0 - 1000000, 0>>, <<0 - 900000, 0 - 100000>>}

IdleTier ==
    tcall = [done |-> FALSE, score |-> 0, min |-> 0, max |-> 1000000, tier |-> "VeryLow"]

(***************************************************************************)
(* ModelOutput                                                             *)
(***************************************************************************)
\* ModelOutput::new classifying against 100.0 instead of 1000.0.
ModelOutput_new_percent(score, confidence, raw_outputs) ==
    [score          |-> score,
     tier           |-> as_str(from_score(score, 100000)),
     confidence     |-> confidence,
     raw_outputs    |-> raw_outputs,
     execution_time |-> 0,
     warnings       |-> <<>>]

ModelOutput_new(score, confidence, raw_outputs) ==
    [score          |-> score,
     tier           |-> as_str(from_score(score, 1000000)),
     confidence     |-> confidence,
     raw_outputs    |-> raw_outputs,
     execution_time |-> 0,
     warnings       |-> <<>>]

\* add_warning that keeps a message only the first time it is passed.
add_warning_once(self, warning) ==
    IF warning \in Range(self.warnings) THEN self
    ELSE [self EXCEPT !.warnings = Append(@, warning)]

add_warning(self, warning) ==
    [self EXCEPT !.warnings = Append(@, warning)]

\* set_execution_time assigning the wrong f64 field.
set_execution_time_as_score(self, time_ms) ==
    [self EXCEPT !.score = time_ms]

set_execution_time(self, time_ms) ==
    [self EXCEPT !.execution_time = time_ms]

has_warnings(self) == self.warnings # <<>>

OutputScores == {0 - 50000, 0, 199999, 200000, 350000, 400000, 700000, 800000, 1200000}

Confidences == {500, 900}

RawOutputs == {[risk_score |-> 1], [risk_score |-> 2]}

Warnings == {"defaulted", "clamped"}

ExecutionTimes == {0, 1500, 42000}

IdleOutput ==
    /\ output = ModelOutput_new(0, 500, [risk_score |-> 1])
    /\ ctor = [score |-> 0, tier |-> "Very Low", confidence |-> 500,
               raw_outputs |-> [risk_score |-> 1], score_range |-> <<0, 1000000>>]
    /\ last_call = "new"
    /\ passed = <<>>

InitOutput ==
    \E score \in OutputScores, confidence \in Confidences,
       raw_outputs \in RawOutputs, range \in ScoreRanges :
        /\ output = ModelOutput_new(score, confidence, raw_outputs)
        /\ ctor = [score |-> score, tier |-> output.tier, confidence |-> confidence,
                   raw_outputs |-> raw_outputs, score_range |-> range]
        /\ last_call = "new"
        /\ passed = <<>>

(***************************************************************************)
(* Factor, FactorAnalysis, RiskAssessment                                  *)
(***************************************************************************)
ImpactDirection == {"Negative", "Positive", "Neutral"}

Impacts == {0 - 1000, 0 - 500, 0, 500, 1000}

Categories == {"credit", "income"}

FactorNames == <<"credit_score", "dti", "annual_income", "utilization", "age", "inquiries">>

\* Factor.impact: "-1.0 to 1.0, where negative is beneficial".
DirectionOfImpact(impact) ==
    IF impact < 0 THEN "Positive" ELSE IF impact > 0 THEN "Negative" ELSE "Neutral"

\* The factor lists explored: any impacts and categories, the direction
\* following the sign of the impact, the names those of the declared features.
FactorLists ==
    {[i \in DOMAIN impacts |->
        [name |-> FactorNames[i], impact |-> impacts[i],
         direction |-> DirectionOfImpact(impacts[i]), category |-> categories[i]]] :
     <<impacts, categories>> \in
        UNION {[1..k -> Impacts] \X [1..k -> Categories] : k \in 0..MaxFactors}}

\* The comparator of top_factors, |a, b| b.impact.abs().partial_cmp(&a.impact.abs()),
\* is Less: a sorts before b.
ComparesLess(factors, a, b) == Abs(factors[a].impact) > Abs(factors[b].impact)

\* An insertion that puts a new element in front of the elements it ties with.
InsertBeforeTies(factors, sorted, i) ==
    LET k == Cardinality({j \in 1..Len(sorted) : ComparesLess(factors, sorted[j], i)})
    IN  SubSeq(sorted, 1, k) \o <<i>> \o SubSeq(sorted, k + 1, Len(sorted))

\* slice::sort_by is a stable sort: an element goes behind every earlier
\* element it does not compare Less than.
StableInsert(factors, sorted, i) ==
    LET k == Cardinality({j \in 1..Len(sorted) : ~ComparesLess(factors, i, sorted[j])})
    IN  SubSeq(sorted, 1, k) \o <<i>> \o SubSeq(sorted, k + 1, Len(sorted))

\* The references to the first k factors, sorted.
RECURSIVE sort_by(_, _)
sort_by(factors, k) ==
    IF k = 0 THEN <<>> ELSE StableInsert(factors, sort_by(factors, k - 1), k)

\* A truncation that keeps one element too many.
truncate_after(v, n) == SubSeq(v, 1, Min(n + 1, Len(v)))

\* Vec::truncate
truncate(v, n) == SubSeq(v, 1, Min(n, Len(v)))

\* A Vec<&Factor> is modelled by the sequence of the positions the references
\* point to in the stored list.
FactorAnalysis_top_factors(self, n) ==
    truncate(sort_by(self.factors, Len(self.factors)), n)

RiskAssessment_top_factors(self, n) ==
    truncate(sort_by(self.key_factors, Len(self.key_factors)), n)

\* The loop body of category_importance adding the signed impact.
AddSignedImpact(importance, factor) ==
    LET current == IF factor.category \in DOMAIN importance
                   THEN importance[factor.category] ELSE 0
    IN  [c \in DOMAIN importance \cup {factor.category} |->
            IF c = factor.category THEN current + factor.impact ELSE importance[c]]

\* *importance.entry(category).or_insert(0.0) += factor.impact.abs()
AddImpact(importance, factor) ==
    LET current == IF factor.category \in DOMAIN importance
                   THEN importance[factor.category] ELSE 0
    IN  [c \in DOMAIN importance \cup {factor.category} |->
            IF c = factor.category THEN current + Abs(factor.impact) ELSE importance[c]]

RECURSIVE Accumulate(_, _)
Accumulate(factors, k) ==
    IF k = 0 THEN [c \in {} |-> 0]
    ELSE AddImpact(Accumulate(factors, k - 1), factors[k])

RECURSIVE SumValues(_, _)
SumValues(importance, keys) ==
    IF keys = {} THEN 0
    ELSE LET c == CHOOSE c \in keys : TRUE
         IN  importance[c] + SumValues(importance, keys \ {c})

\* Each value of the returned map is the fraction num / den.
category_importance(self) ==
    LET importance == Accumulate(self.factors, Len(self.factors))
        total == SumValues(importance, DOMAIN importance)
    IN  IF total > 0
        THEN [c \in DOMAIN importance |-> [num |-> importance[c], den |-> total]]
        ELSE [c \in DOMAIN importance |-> [num |-> importance[c], den |-> 1]]

\* iter().filter(..).collect() over the positions of factors: those whose
\* direction is the given one, in the order of factors.
RECURSIVE filter(_, _, _)
filter(factors, k, direction) ==
    IF k > Len(factors) THEN <<>>
    ELSE IF factors[k].direction = direction
         THEN <<k>> \o filter(factors, k + 1, direction)
         ELSE filter(factors, k + 1, direction)

\* positive_factors that keeps every factor not Negative.
positive_factors_not_negative(self) ==
    filter(self.key_factors, 1, "Positive") \o filter(self.key_factors, 1, "Neutral")

positive_factors(self) == filter(self.key_factors, 1, "Positive")

negative_factors(self) == filter(self.key_factors, 1, "Negative")

\* The key factors explored for the direction queries: direction is a field of
\* its own, set by whoever builds the Factor, whatever the impact.
DirectedFactorLists ==
    {[i \in DOMAIN impacts |->
        [name |-> FactorNames[i], impact |-> impacts[i],
         direction |-> directions[i], category |-> "credit"]] :
     <<impacts, directions>> \in
        UNION {[1..k -> {0 - 500, 500}] \X [1..k -> ImpactDirection] : k \in 0..MaxFactors}}

\* RiskAssessment::new that forgets the validity window.
RiskAssessment_new_no_window(risk_score, risk_tier, confidence, key_factors, expires_days, now) ==
    [risk_score      |-> risk_score,
     risk_tier       |-> risk_tier,
     confidence      |-> confidence,
     key_factors     |-> key_factors,
     assessment_date |-> now,
     expires_date    |-> now]

\* now is the value Utc::now() returns inside new.
RiskAssessment_new(risk_score, risk_tier, confidence, key_factors, expires_days, now) ==
    [risk_score      |-> risk_score,
     risk_tier       |-> risk_tier,
     confidence      |-> confidence,
     key_factors     |-> key_factors,
     assessment_date |-> now,
     expires_date    |-> now + expires_days]

\* is_expired that counts the instant expires_date itself as expired.
is_expired_inclusive(self, now) == now >= self.expires_date

is_expired(self, now) == now > self.expires_date

ExpiresDays == (0 - 2)..MaxExpiresDays

IdleCalls ==
    /\ fcall = [op |-> "none", n |-> 0, top |-> <<>>, importance |-> <<>>, stored |-> <<>>]
    /\ acall = [op |-> "none", at |-> 0, expired |-> FALSE]

IdleFactors ==
    /\ analysis = [factors |-> <<>>]
    /\ assessment = RiskAssessment_new(0, "Very Low", 500, <<>>, 30, 0)
    /\ given = [expires_days |-> 30]
    /\ clock = 0
    /\ IdleCalls

\* An analysis, and the assessment built from its factors.
InitFactors ==
    /\ \E factors \in FactorLists :
        /\ analysis = [factors |-> factors]
        /\ assessment = RiskAssessment_new(0, "Very Low", 500, factors, 30, 0)
    /\ given = [expires_days |-> 30]
    /\ clock = 0
    /\ IdleCalls

\* An assessment with key factors of any direction.
InitDirected ==
    /\ analysis = [factors |-> <<>>]
    /\ \E factors \in DirectedFactorLists :
        assessment = RiskAssessment_new(0, "Very Low", 500, factors, 30, 0)
    /\ given = [expires_days |-> 30]
    /\ clock = 0
    /\ IdleCalls

InitAssessment ==
    /\ analysis = [factors |-> <<>>]
    /\ \E now \in 0..2, expires_days \in ExpiresDays :
        /\ clock = now
        /\ given = [expires_days |-> expires_days]
        /\ assessment = RiskAssessment_new(0, "Very Low", 500, <<>>, expires_days, now)
    /\ IdleCalls

(***************************************************************************)
(* RiskModel                                                               *)
(***************************************************************************)
Ok == [ok |-> TRUE, code |-> <<>>]

Err(code) == [ok |-> FALSE, code |-> code]

\* The loop over the definitions with the HashSet names: the position of the
\* first definition whose name insert() finds present, 0 when there is none.
RECURSIVE FirstRejected(_, _, _)
FirstRejected(defs, k, names) ==
    IF k > Len(defs) THEN 0
    ELSE IF defs[k].name \in names THEN k
    ELSE FirstRejected(defs, k + 1, names \cup {defs[k].name})

\* A duplicate check that compares each name with the one before it only.
validate_features_adjacent(self) ==
    IF self.features = <<>> THEN Err(<<"Model must have at least one feature">>)
    ELSE IF \E k \in 2..Len(self.features) :
                self.features[k].name = self.features[k - 1].name
         THEN LET k == CHOOSE k \in 2..Len(self.features) :
                          self.features[k].name = self.features[k - 1].name
              IN  Err(<<"Duplicate feature name: ", self.features[k].name>>)
         ELSE Ok

validate_features(self) ==
    IF self.features = <<>> THEN Err(<<"Model must have at least one feature">>)
    ELSE LET k == FirstRejected(self.features, 1, {})
         IN  IF k # 0 THEN Err(<<"Duplicate feature name: ", self.features[k].name>>)
             ELSE Ok

\* validate_outputs without its last check.
validate_outputs_unchecked(self) ==
    IF self.outputs = <<>> THEN Err(<<"Model must have at least one output">>)
    ELSE LET k == FirstRejected(self.outputs, 1, {})
         IN  IF k # 0 THEN Err(<<"Duplicate output name: ", self.outputs[k].name>>)
             ELSE Ok

validate_outputs(self) ==
    IF self.outputs = <<>> THEN Err(<<"Model must have at least one output">>)
    ELSE LET k == FirstRejected(self.outputs, 1, {})
         IN  IF k # 0 THEN Err(<<"Duplicate output name: ", self.outputs[k].name>>)
             ELSE IF ~\E i \in 1..Len(self.outputs) : self.outputs[i].name = "risk_score"
             THEN Err(<<"Model must have a 'risk_score' output">>)
             ELSE Ok

\* validate_score_range rejecting only min > max.
validate_score_range_strict(self) ==
    LET min == self.score_range[1]
        max == self.score_range[2]
    IN  IF min > max THEN Err(<<"Score minimum must be less than maximum">>) ELSE Ok

validate_score_range(self) ==
    LET min == self.score_range[1]
        max == self.score_range[2]
    IN  IF min >= max THEN Err(<<"Score minimum must be less than maximum">>) ELSE Ok

FeatureDefinitions == {[name |-> n] : n \in {"age", "dti", "credit_score"}}

OutputDefinitions == {[name |-> n] : n \in {"risk_score", "confidence"}}

ModelScoreRanges == {<<0, 1000000>>, <<500000, 500000>>, <<850000, 300000>>}

IdleModel ==
    /\ model = [features |-> <<[name |-> "age"]>>, outputs |-> <<[name |-> "risk_score"]>>,
                score_range |-> <<0, 1000000>>]
    /\ vcall = [op |-> "none", result |-> Ok]

InitModel ==
    /\ \E features \in SeqsUpTo(FeatureDefinitions, MaxFeatures),
          outputs \in SeqsUpTo(OutputDefinitions, MaxOutputs),
          score_range \in ModelScoreRanges :
        model = [features |-> features, outputs |-> outputs, score_range |-> score_range]
    /\ vcall = [op |-> "none", result |-> Ok]

(***************************************************************************)
(* ApplicantData                                                           *)
(***************************************************************************)
\* serde_json::to_value: the JSON value that carries v.
to_value(v) == <<"Value", v>>

\* The age of the applicant at the time of the call, in whole years, as a JSON
\* value; dates are years.
calculate_age(self, now) == to_value(now - self.personal_info.date_of_birth)

\* The inserts into the HashMap, in the order of the source; the keys are
\* distinct, so no insert replaces an earlier one.
to_input_format(self, now) ==
    [name                |-> to_value(self.personal_info.name),
     age                 |-> calculate_age(self, now),
     address_years       |-> to_value(self.personal_info.years_at_address),
     dependents          |-> to_value(self.personal_info.dependents),
     postal_code         |-> to_value(self.personal_info.address.postal_code),
     annual_income       |-> to_value(self.financial_info.annual_income),
     monthly_housing     |-> to_value(self.financial_info.monthly_housing_payment),
     monthly_debt        |-> to_value(self.financial_info.monthly_debt_payments),
     total_assets        |-> to_value(self.financial_info.total_assets),
     liquid_assets       |-> to_value(self.financial_info.liquid_assets),
     free_cash_flow      |-> to_value(self.financial_info.monthly_free_cash_flow),
     dti                 |-> to_value(self.financial_info.debt_to_income_ratio),
     credit_score        |-> to_value(self.credit_info.credit_score),
     open_accounts       |-> to_value(self.credit_info.open_accounts),
     delinquent_accounts |-> to_value(self.credit_info.delinquent_accounts),
     inquiries           |-> to_value(self.credit_info.inquiries_last_6_months),
     account_age         |-> to_value(self.credit_info.oldest_account_age_months),
     credit_limit        |-> to_value(self.credit_info.total_credit_limit),
     credit_balance      |-> to_value(self.credit_info.total_current_balance),
     utilization         |-> to_value(self.credit_info.credit_utilization),
     public_records      |-> to_value(self.credit_info.public_records)]

PersonalInfo(date_of_birth) ==
    [name             |-> "A. Applicant",
     date_of_birth    |-> date_of_birth,
     address          |-> [postal_code |-> "94105"],
     years_at_address |-> 4500,
     dependents       |-> 2]

FinancialInfo(annual_income) ==
    [annual_income           |-> annual_income,
     monthly_housing_payment |-> 1500000,
     monthly_debt_payments   |-> 400000,
     total_assets            |-> 120000000,
     liquid_assets           |-> 15000000,
     monthly_free_cash_flow  |-> 900000,
     debt_to_income_ratio    |-> 310]

CreditInfo(credit_score) ==
    [credit_score              |-> credit_score,
     open_accounts             |-> 5,
     delinquent_accounts       |-> 0,
     inquiries_last_6_months   |-> 1,
     oldest_account_age_months |-> 96,
     total_credit_limit        |-> 20000000,
     total_current_balance     |-> 4000000,
     credit_utilization        |-> 200,
     public_records            |-> 0]

BirthYears == {1960, 1990, 2008}

EvaluationYears == {2025, 2026}

ApplicantDatas ==
    {[applicant_id   |-> "applicant-1",
      personal_info  |-> PersonalInfo(date_of_birth),
      financial_info |-> FinancialInfo(annual_income),
      credit_info    |-> CreditInfo(credit_score)] :
        date_of_birth \in BirthYears,
        annual_income \in {30000000, 85000000},
        credit_score \in {580, 720}}

IdleApplicant ==
    /\ applicant = [applicant_id   |-> "applicant-1",
                    personal_info  |-> PersonalInfo(1990),
                    financial_info |-> FinancialInfo(85000000),
                    credit_info    |-> CreditInfo(720)]
    /\ xcall = [op |-> "none", now |-> 0, input |-> <<>>, self |-> <<>>]

\* An applicant, and the model the input is extracted for.
InitApplicant ==
    /\ applicant \in ApplicantDatas
    /\ xcall = [op |-> "none", now |-> 0, input |-> <<>>, self |-> <<>>]
    /\ \E features \in SeqsUpTo(FeatureDefinitions, MaxFeatures) :
        model = [features |-> features, outputs |-> <<[name |-> "risk_score"]>>,
                 score_range |-> <<0, 1000000>>]
    /\ vcall = [op |-> "none", result |-> Ok]

(***************************************************************************)
(* Operations                                                              *)
(***************************************************************************)
\* from_score is called with a score and, as max_score, the maximum of a score
\* range; it does not receive the range's minimum, which tcall records beside
\* the arguments.
FromScore ==
    \E score \in TierScores, r \in ScoreRanges :
        /\ tcall' = [done |-> TRUE, score |-> score, min |-> r[1], max |-> r[2],
                     tier |-> from_score(score, r[2])]
        /\ UNCHANGED <<outputVars, factorVars, assessmentVars, modelVars, applicantVars>>

AddWarning ==
    /\ Len(output.warnings) < MaxWarnings
    /\ \E warning \in Warnings :
        /\ output' = add_warning(output, warning)
        /\ passed' = Append(passed, warning)
    /\ last_call' = "add_warning"
    /\ UNCHANGED <<tierVars, ctor, factorVars, assessmentVars, modelVars, applicantVars>>

SetExecutionTime ==
    /\ \E time_ms \in ExecutionTimes : output' = set_execution_time(output, time_ms)
    /\ last_call' = "set_execution_time"
    /\ UNCHANGED <<tierVars, ctor, passed, factorVars, assessmentVars, modelVars, applicantVars>>

AnalysisTopFactors ==
    /\ \E n \in 0..(MaxFactors + 1) :
        fcall' = [op |-> "FactorAnalysis::top_factors", n |-> n,
                  top |-> FactorAnalysis_top_factors(analysis, n),
                  importance |-> <<>>, stored |-> analysis.factors]
    /\ UNCHANGED <<tierVars, outputVars, analysis, assessment, given, clock, acall, modelVars, applicantVars>>

AssessmentTopFactors ==
    /\ \E n \in 0..(MaxFactors + 1) :
        fcall' = [op |-> "RiskAssessment::top_factors", n |-> n,
                  top |-> RiskAssessment_top_factors(assessment, n),
                  importance |-> <<>>, stored |-> assessment.key_factors]
    /\ UNCHANGED <<tierVars, outputVars, analysis, assessment, given, clock, acall, modelVars, applicantVars>>

CategoryImportance ==
    /\ fcall' = [op |-> "category_importance", n |-> 0, top |-> <<>>,
                 importance |-> category_importance(analysis),
                 stored |-> analysis.factors]
    /\ UNCHANGED <<tierVars, outputVars, analysis, assessment, given, clock, acall, modelVars, applicantVars>>

PositiveFactors ==
    /\ fcall' = [op |-> "positive_factors", n |-> 0,
                 top |-> positive_factors(assessment),
                 importance |-> <<>>, stored |-> assessment.key_factors]
    /\ UNCHANGED <<tierVars, outputVars, analysis, assessment, given, clock, acall, modelVars, applicantVars>>

NegativeFactors ==
    /\ fcall' = [op |-> "negative_factors", n |-> 0,
                 top |-> negative_factors(assessment),
                 importance |-> <<>>, stored |-> assessment.key_factors]
    /\ UNCHANGED <<tierVars, outputVars, analysis, assessment, given, clock, acall, modelVars, applicantVars>>

\* Time passes.
Tick ==
    /\ clock < MaxClock
    /\ clock' = clock + 1
    /\ UNCHANGED <<tierVars, outputVars, factorVars, assessment, given, acall, modelVars, applicantVars>>

IsExpired ==
    /\ acall' = [op |-> "is_expired", at |-> clock, expired |-> is_expired(assessment, clock)]
    /\ UNCHANGED <<tierVars, outputVars, factorVars, assessment, given, clock, modelVars, applicantVars>>

ValidateFeatures ==
    /\ vcall' = [op |-> "validate_features", result |-> validate_features(model)]
    /\ UNCHANGED <<tierVars, outputVars, factorVars, assessmentVars, model, applicantVars>>

ValidateOutputs ==
    /\ vcall' = [op |-> "validate_outputs", result |-> validate_outputs(model)]
    /\ UNCHANGED <<tierVars, outputVars, factorVars, assessmentVars, model, applicantVars>>

ValidateScoreRange ==
    /\ vcall' = [op |-> "validate_score_range", result |-> validate_score_range(model)]
    /\ UNCHANGED <<tierVars, outputVars, factorVars, assessmentVars, model, applicantVars>>

\* to_input_format receives the applicant only; xcall keeps the applicant as
\* it was when the call was made.
ToInputFormat ==
    /\ \E now \in EvaluationYears :
        xcall' = [op |-> "to_input_format", now |-> now,
                  input |-> to_input_format(applicant, now), self |-> applicant]
    /\ UNCHANGED <<tierVars, outputVars, factorVars, assessmentVars, modelVars, applicant>>

(***************************************************************************)
(* Specifications: one per type, the other types idle                      *)
(***************************************************************************)
InitTier == IdleTier /\ IdleOutput /\ IdleFactors /\ IdleModel /\ IdleApplicant

NextTier == FromScore

SpecTier == InitTier /\ [][NextTier]_vars

InitModelOutput == IdleTier /\ InitOutput /\ IdleFactors /\ IdleModel /\ IdleApplicant

NextModelOutput == AddWarning \/ SetExecutionTime

SpecOutput == InitModelOutput /\ [][NextModelOutput]_vars

InitFactorQueries == IdleTier /\ IdleOutput /\ InitFactors /\ IdleModel /\ IdleApplicant

NextFactorQueries == AnalysisTopFactors \/ AssessmentTopFactors \/ CategoryImportance

SpecFactors == InitFactorQueries /\ [][NextFactorQueries]_vars

InitExpiry == IdleTier /\ IdleOutput /\ InitAssessment /\ IdleModel /\ IdleApplicant

NextExpiry == Tick \/ IsExpired

SpecAssessment == InitExpiry /\ [][NextExpiry]_vars

InitValidation == IdleTier /\ IdleOutput /\ IdleFactors /\ InitModel /\ IdleApplicant

NextValidation == ValidateFeatures \/ ValidateOutputs \/ ValidateScoreRange

SpecModel == InitValidation /\ [][NextValidation]_vars

InitDirections == IdleTier /\ IdleOutput /\ InitDirected /\ IdleModel /\ IdleApplicant

NextDirections == PositiveFactors \/ NegativeFactors

SpecDirections == InitDirections /\ [][NextDirections]_vars

InitExtraction == IdleTier /\ IdleOutput /\ IdleFactors /\ InitApplicant

NextExtraction == ToInputFormat

SpecExtraction == InitExtraction /\ [][NextExtraction]_vars

(***************************************************************************)
(* Properties of the tier classifier                                       *)
(***************************************************************************)
\* score / max_score < k / 5 for a max_score other than 0.
QuotientBelowFifths(s, m, k) == IF m > 0 THEN 5 * s < k * m ELSE 5 * s > k * m

\* C1: from_score maps n = score / max_score by n < 0.2 -> VeryLow,
\* 0.2 <= n < 0.4 -> Low, 0.4 <= n < 0.6 -> Moderate, 0.6 <= n < 0.8 -> High,
\* n >= 0.8 -> VeryHigh, a threshold value going to the higher tier; against
\* 1000.0 the scores 199.999, 200.0, 399.999, 400.0, 799.999, 800.0 give
\* VeryLow, Low, Low, Moderate, High, VeryHigh.
C1_TierThresholds ==
    (tcall.done /\ tcall.max # 0) =>
        LET s == tcall.score
            m == tcall.max
            t == tcall.tier
            Lt(k) == QuotientBelowFifths(s, m, k)
        IN  /\ Lt(1) => t = "VeryLow"
            /\ (~Lt(1) /\ Lt(2)) => t = "Low"
            /\ (~Lt(2) /\ Lt(3)) => t = "Moderate"
            /\ (~Lt(3) /\ Lt(4)) => t = "High"
            /\ ~Lt(4) => t = "VeryHigh"
            /\ m = 1000000 =>
                /\ s = 199999 => t = "VeryLow"
                /\ s = 200000 => t = "Low"
                /\ s = 399999 => t = "Low"
                /\ s = 400000 => t = "Moderate"
                /\ s = 799999 => t = "High"
                /\ s = 800000 => t = "VeryHigh"

C1_Witness ==
    tcall.done /\ tcall.score = 200000 /\ tcall.max = 1000000 /\ tcall.tier = "Low"

\* C2 as stated: for every score and every range with min < max the tier is
\* that of (score - min) / (max - min) clamped into [0,1].
C2_NormalizesWithBothBounds ==
    (tcall.done /\ tcall.min < tcall.max) =>
        tcall.tier = classify_tier(tcall.score, tcall.min, tcall.max)

\* C2 amended: classification never fails, and it normalises with the upper
\* bound of the range alone: for max > 0 the tier is that of score / max
\* clamped into [0,1], whatever min is, so a score at or below 0 is VeryLow
\* and a score at or above max is VeryHigh.
C2_NormalizesFromZero ==
    tcall.done =>
        /\ tcall.tier \in RiskTier
        /\ tcall.max > 0 =>
            /\ tcall.tier = classify_tier(tcall.score, 0, tcall.max)
            /\ tcall.score <= 0 => tcall.tier = "VeryLow"
            /\ tcall.score >= tcall.max => tcall.tier = "VeryHigh"

C2_Witness ==
    /\ tcall.done /\ tcall.min = 300000 /\ tcall.max = 850000
    /\ tcall.score = 850000 /\ tcall.tier = "VeryHigh"

(***************************************************************************)
(* Properties of ModelOutput                                               *)
(***************************************************************************)
\* C3 as stated: the tier field is the label of the tier of the score field
\* within the model's own declared score_range, in every state.
C3_TierOfModelRange ==
    output.tier =
        as_str(classify_tier(output.score, ctor.score_range[1], ctor.score_range[2]))

\* C3 amended: the tier field is the label of the tier of the score field on
\* the fixed scale 0 .. 1000, whatever score_range the model declares, in
\* every state: after construction and after any sequence of add_warning and
\* set_execution_time calls.
C3_TierOfFixedScale ==
    output.tier = as_str(classify_tier(output.score, 0, 1000000))

C3_Witness ==
    /\ ctor.score_range = <<0, 500000>>
    /\ output.score = 350000 /\ output.tier = "Low"
    /\ Len(output.warnings) = 2 /\ last_call = "set_execution_time"

\* C8: add_warning changes only warnings, set_execution_time changes only
\* execution_time, so score, tier, confidence and raw_outputs always equal the
\* values given at construction.
C8_OnlyWarningsAndTimeChange ==
    /\ [](/\ output.score = ctor.score
          /\ output.tier = ctor.tier
          /\ output.confidence = ctor.confidence
          /\ output.raw_outputs = ctor.raw_outputs)
    /\ [][/\ last_call' = "add_warning" =>
               /\ output'.warnings # output.warnings
               /\ output' = [output EXCEPT !.warnings = output'.warnings]
          /\ last_call' = "set_execution_time" =>
               output' = [output EXCEPT !.execution_time = output'.execution_time]]_vars

C8_Witness ==
    /\ last_call = "set_execution_time" /\ output.execution_time = 42000
    /\ Len(output.warnings) = 2 /\ output.score = ctor.score /\ output.score = 700000

(***************************************************************************)
(* Properties of top_factors and category_importance                       *)
(***************************************************************************)
TopFactorsCalled ==
    fcall.op \in {"FactorAnalysis::top_factors", "RiskAssessment::top_factors"}

\* The list the last query was made on, as it is now.
QueriedFactors ==
    IF fcall.op = "RiskAssessment::top_factors"
    THEN assessment.key_factors ELSE analysis.factors

\* C4: top_factors(n) returns the factors in order of decreasing absolute
\* impact, equal absolute impacts in the order of the stored list; no omitted
\* factor has a greater absolute impact than a returned one, and among equal
\* absolute impacts no omitted factor is stored before a returned one.
C4_RankedByAbsoluteImpact ==
    TopFactorsCalled =>
        LET factors == QueriedFactors
            top == fcall.top
            magnitude(i) == Abs(factors[i].impact)
        IN  /\ \A i, j \in 1..Len(top) :
                i < j =>
                    /\ magnitude(top[i]) >= magnitude(top[j])
                    /\ magnitude(top[i]) = magnitude(top[j]) => top[i] < top[j]
            /\ \A k \in (1..Len(factors)) \ Range(top) :
                \A i \in 1..Len(top) :
                    /\ magnitude(k) <= magnitude(top[i])
                    /\ magnitude(k) = magnitude(top[i]) => top[i] < k

C4_Witness ==
    /\ fcall.op = "FactorAnalysis::top_factors" /\ fcall.n = 2
    /\ Len(analysis.factors) = 3
    /\ analysis.factors[1].impact = 500
    /\ analysis.factors[2].impact = 0 - 1000
    /\ analysis.factors[3].impact = 0 - 500
    /\ fcall.top = <<2, 1>>

\* C5: top_factors(n) returns exactly min(n, number of stored factors)
\* entries, each a distinct element of the stored list, and leaves the stored
\* list as it was.
C5_AtMostNDistinctEntries ==
    TopFactorsCalled =>
        /\ Len(fcall.top) = Min(fcall.n, Len(QueriedFactors))
        /\ Len(fcall.top) <= fcall.n
        /\ \A i \in 1..Len(fcall.top) : fcall.top[i] \in 1..Len(QueriedFactors)
        /\ \A i, j \in 1..Len(fcall.top) : i # j => fcall.top[i] # fcall.top[j]
        /\ QueriedFactors = fcall.stored

C5_Witness ==
    /\ fcall.op = "RiskAssessment::top_factors" /\ fcall.n = 4
    /\ Len(assessment.key_factors) = 3 /\ Len(fcall.top) = 3

RECURSIVE SumOfMagnitudes(_, _)
SumOfMagnitudes(factors, positions) ==
    IF positions = {} THEN 0
    ELSE LET i == CHOOSE i \in positions : TRUE
         IN  Abs(factors[i].impact) + SumOfMagnitudes(factors, positions \ {i})

\* The sum of the fractions importance[c], c in keys, as a fraction.
RECURSIVE SumOfFractions(_, _)
SumOfFractions(importance, keys) ==
    IF keys = {} THEN [num |-> 0, den |-> 1]
    ELSE LET c == CHOOSE c \in keys : TRUE
             rest == SumOfFractions(importance, keys \ {c})
         IN  [num |-> importance[c].num * rest.den + rest.num * importance[c].den,
              den |-> importance[c].den * rest.den]

\* C6: category_importance has exactly one entry per category present among
\* the factors, its value the category's sum of absolute impacts divided by
\* the sum of all absolute impacts; the values sum to 1 when that total is
\* positive, and all are 0 when it is 0.
C6_CategoryShares ==
    fcall.op = "category_importance" =>
        LET factors == analysis.factors
            importance == fcall.importance
            positions == 1..Len(factors)
            of(c) == {i \in positions : factors[i].category = c}
            total == SumOfMagnitudes(factors, positions)
            sum == SumOfFractions(importance, DOMAIN importance)
        IN  /\ DOMAIN importance = {factors[i].category : i \in positions}
            /\ \A c \in DOMAIN importance : importance[c].den > 0
            /\ total > 0 =>
                /\ \A c \in DOMAIN importance :
                    importance[c].num * total = SumOfMagnitudes(factors, of(c)) * importance[c].den
                /\ sum.num = sum.den
            /\ total = 0 => \A c \in DOMAIN importance : importance[c].num = 0

C6_Witness ==
    /\ fcall.op = "category_importance"
    /\ Len(analysis.factors) = 3
    /\ analysis.factors[1].impact = 0 - 1000 /\ analysis.factors[1].category = "credit"
    /\ analysis.factors[2].impact = 500 /\ analysis.factors[2].category = "income"
    /\ analysis.factors[3].impact = 500 /\ analysis.factors[3].category = "credit"
    /\ fcall.importance["credit"] = [num |-> 1500, den |-> 2000]
    /\ fcall.importance["income"] = [num |-> 500, den |-> 2000]

(***************************************************************************)
(* Properties of RiskAssessment::new                                       *)
(***************************************************************************)
\* C7 as stated: expires_date is strictly later than assessment_date for
\* every expires_days.
C7_ExpiresAfterAssessment ==
    assessment.expires_date > assessment.assessment_date

\* C7 amended: expires_date is assessment_date plus expires_days days, so it
\* is strictly later than assessment_date exactly when expires_days > 0.
C7_ExpiresAfterWindow ==
    /\ assessment.expires_date = assessment.assessment_date + given.expires_days
    /\ assessment.expires_date > assessment.assessment_date <=> given.expires_days > 0

C7_Witness ==
    /\ given.expires_days = 3 /\ assessment.assessment_date = 2
    /\ assessment.expires_date = 5 /\ clock = 6

(***************************************************************************)
(* Properties of RiskModel validation                                      *)
(***************************************************************************)
HasDuplicateName(defs) ==
    \E i, j \in 1..Len(defs) : i < j /\ defs[i].name = defs[j].name

\* C9: validate_outputs returns an error exactly when the output list is
\* empty, or two outputs share a name, or no output is named risk_score.
C9_ValidateOutputs ==
    vcall.op = "validate_outputs" =>
        (~vcall.result.ok <=>
            \/ Len(model.outputs) = 0
            \/ HasDuplicateName(model.outputs)
            \/ \A i \in 1..Len(model.outputs) : model.outputs[i].name # "risk_score")

C9_Witness ==
    /\ vcall.op = "validate_outputs"
    /\ model.outputs = <<[name |-> "confidence"]>>
    /\ vcall.result = Err(<<"Model must have a 'risk_score' output">>)

DeclaredFeatureNames == {model.features[i].name : i \in 1..Len(model.features)}

\* C12: feature extraction, given an ApplicantData and a model's
\* FeatureDefinition list, produces an input vector whose key set equals the set
\* of declared feature names, no more and no fewer, with the derived field age
\* computed during extraction, and leaves the ApplicantData unmodified.
C12_OneEntryPerDeclaredFeature ==
    xcall.op = "to_input_format" =>
        /\ DOMAIN xcall.input = DeclaredFeatureNames
        /\ "age" \in DeclaredFeatureNames =>
               xcall.input["age"] = to_value(xcall.now - applicant.personal_info.date_of_birth)
        /\ applicant = xcall.self

(***************************************************************************)
(* Properties of the warnings of a ModelOutput                             *)
(***************************************************************************)
\* C13: warnings on a ModelOutput only accumulate: a newly constructed
\* ModelOutput has no warnings and has_warnings() is false; after any sequence
\* of operations the warnings list is exactly the sequence of messages passed to
\* add_warning, in call order, none dropped, reordered or deduplicated;
\* has_warnings() is true exactly when add_warning has been called at least
\* once, and once true it stays true.
C13_WarningsAccumulate ==
    /\ [](last_call = "new" => output.warnings = <<>> /\ ~has_warnings(output))
    /\ [](output.warnings = passed)
    /\ [](has_warnings(output) <=> Len(passed) >= 1)
    /\ [][has_warnings(output) => has_warnings(output')]_vars

C13_Witness ==
    /\ passed = <<"clamped", "clamped", "defaulted">>
    /\ output.warnings = passed
    /\ has_warnings(output)
    /\ last_call = "set_execution_time"

(***************************************************************************)
(* Properties of the expiry of a RiskAssessment                            *)
(***************************************************************************)
\* C14: is_expired() returns true exactly when the current time is strictly
\* later than expires_date, false at the instant equal to it; an assessment
\* built by RiskAssessment::new with a positive validity window is not expired
\* at construction; with a clock that never moves backwards, once is_expired()
\* has returned true it returns true on every later call.
C14_ExpiredStrictlyAfter ==
    /\ [](acall.op = "is_expired" =>
            /\ acall.expired <=> acall.at > assessment.expires_date
            /\ acall.at = assessment.expires_date => ~acall.expired
            /\ given.expires_days > 0 /\ acall.at = assessment.assessment_date =>
                   ~acall.expired)
    /\ [][clock' >= clock]_vars
    /\ [][acall.op = "is_expired" /\ acall.expired /\ acall'.op = "is_expired" =>
              acall'.expired]_vars

C14_Witness ==
    /\ acall.op = "is_expired"
    /\ given.expires_days > 0
    /\ acall.at = assessment.expires_date
    /\ ~acall.expired
    /\ acall.at > assessment.assessment_date

(***************************************************************************)
(* Properties of the factors selected by direction                         *)
(***************************************************************************)
\* result holds exactly the positions of the factors of the given direction,
\* each once, in increasing order.
IsSelectionOf(result, factors, direction) ==
    /\ \A i, j \in 1..Len(result) : i < j => result[i] < result[j]
    /\ Range(result) = {k \in 1..Len(factors) : factors[k].direction = direction}

PositionsOf(factors, direction) ==
    {k \in 1..Len(factors) : factors[k].direction = direction}

\* C15: positive_factors() returns exactly the key_factors whose direction is
\* Positive and negative_factors() exactly those whose direction is Negative,
\* each in key_factors order; the two results are disjoint, neither contains a
\* Neutral factor, and together with the Neutral factors they partition
\* key_factors.
C15_FactorsByDirection ==
    LET key_factors == assessment.key_factors
        positive    == Range(positive_factors(assessment))
        negative    == Range(negative_factors(assessment))
        neutral     == PositionsOf(key_factors, "Neutral")
    IN  /\ fcall.op = "positive_factors" =>
              /\ IsSelectionOf(fcall.top, key_factors, "Positive")
              /\ fcall.stored = key_factors
        /\ fcall.op = "negative_factors" =>
              /\ IsSelectionOf(fcall.top, key_factors, "Negative")
              /\ fcall.stored = key_factors
        /\ fcall.op \in {"positive_factors", "negative_factors"} =>
              /\ positive \cap negative = {}
              /\ positive \cap neutral = {}
              /\ negative \cap neutral = {}
              /\ positive \cup negative \cup neutral = 1..Len(key_factors)

C15_Witness ==
    /\ fcall.op = "positive_factors"
    /\ Len(assessment.key_factors) = 3
    /\ assessment.key_factors[1].direction = "Neutral"
    /\ assessment.key_factors[2].direction = "Positive"
    /\ assessment.key_factors[2].impact = 500
    /\ assessment.key_factors[3].direction = "Negative"
    /\ fcall.top = <<2>>
====
